---- MODULE Spec2Model ----
(***************************************************************************)
(* State machine of the crypto dashboard component (src/src/App.tsx).      *)
(*                                                                         *)
(* The component keeps React state (data, selectedCoins, days, loading,    *)
(* error, summary, percentage, holdings) and runs the async function       *)
(* fetchCrypto from an effect whenever selectedCoins or days change.       *)
(* Each invocation of fetchCrypto is a "cycle": it captures selectedCoins  *)
(* and days of the render that created it, and suspends at every           *)
(* `await axios.get(...)`.  Each action below is one run-to-completion     *)
(* step of the single UI thread: an event handler together with the        *)
(* re-render and effect it causes, or the continuation of one cycle from   *)
(* a settled await up to its next await (or its end); the state updates of *)
(* one step are seen together, as React batches them.                      *)
(*                                                                         *)
(* src/unnamed/part_000 is the single-coin variant of the same component:  *)
(* its fetchCrypto is the loop body below for one coin, with the same      *)
(* try / catch / finally and the same trend analysis.                      *)
(***************************************************************************)
EXTENDS Integers, Sequences, FiniteSets, TLC

VARIABLES
    data,           \* useState<Record<string, CoinData[]>>({})
    selectedCoins,  \* useState(["bitcoin"])
    days,           \* useState(7)
    loading,        \* useState(false)
    error,          \* useState("")
    summary,        \* useState("")
    percentage,     \* useState("")
    holdings,       \* useState<Holdings>({bitcoin: 0, ethereum: 0, solana: 0})
    calls,          \* the invocations of fetchCrypto, in start order
    crashed         \* the render threw (the tree is unmounted)

vars == <<data, selectedCoins, days, loading, error, summary, percentage,
          holdings, calls, crashed>>

(***************************************************************************)
(* Bounds of the model.                                                    *)
(***************************************************************************)
MaxCycles == 2      \* invocations of fetchCrypto in one behaviour of Spec
MaxLen == 2         \* samples in one fetched series (SpecTrend)
MaxPrice == 3       \* largest price of a sample (SpecTrend)
MaxHeldLen == 2     \* samples in one fetched series (SpecPortfolio)
MaxHeldPrice == 1   \* largest price of a sample (SpecPortfolio)

(***************************************************************************)
(* Program constants.                                                      *)
(***************************************************************************)
COINS == <<"bitcoin", "ethereum", "solana">>

CoinNames == {COINS[i] : i \in 1..Len(COINS)}

Windows == {7, 30, 90}

ErrorMessage == "Failed to load crypto data. Please try again later."

\* The texts the holdings <input type="number"> can deliver to onChange:
\* a valid number, or "" when the field is emptied or invalid.
InputTexts == {"", "0", "2", "-1"}

(***************************************************************************)
(* JavaScript values.                                                      *)
(***************************************************************************)
\* A JS number that may be NaN (holdings quantities, the portfolio total).
Num(n) == [nan |-> FALSE, v |-> n]

NaN == [nan |-> TRUE, v |-> 0]

JsMul(a, b) == IF a.nan \/ b.nan THEN NaN ELSE Num(a.v * b.v)

JsAdd(a, b) == IF a.nan \/ b.nan THEN NaN ELSE Num(a.v + b.v)

\* parseFloat(e.target.value) on the texts of InputTexts
ParseFloat(t) ==
    CASE t = ""   -> NaN
      [] t = "0"  -> Num(0)
      [] t = "2"  -> Num(2)
      [] t = "-1" -> Num(0 - 1)

\* coin.toUpperCase() on the registry's identifiers
ToUpperCase(coin) ==
    CASE coin = "bitcoin"  -> "BITCOIN"
      [] coin = "ethereum" -> "ETHEREUM"
      [] coin = "solana"   -> "SOLANA"

\* The empty string of summary / percentage / error, and the empty object.
NoText == <<>>

EmptyMap == [k \in {} |-> 0]

(***************************************************************************)
(* Trend analysis: the body of the loop of fetchCrypto after the await.    *)
(***************************************************************************)
\* prices = response.data.map(item => item.price); first and last of it
First(prices) == prices[1]

Last(prices) == prices[Len(prices)]

\* const change = ((last - first) / first) * 100 as an IEEE double:
\* x/0 is +-Infinity, 0/0 is NaN; otherwise the rational num/den.
Change(first, last) ==
    IF first = 0
    THEN IF last > 0 THEN [kind |-> "inf", num |-> 1, den |-> 1]
         ELSE IF last < 0 THEN [kind |-> "neginf", num |-> 0 - 1, den |-> 1]
         ELSE [kind |-> "nan", num |-> 0, den |-> 1]
    ELSE [kind |-> "fin", num |-> (last - first) * 100, den |-> first]

\* IsPositive with the comparison written change >= 0
IsPositive_Ge(change) == change.kind = "inf" \/ (change.kind = "fin" /\ change.num >= 0)

\* change > 0 and change < 0 (both false for NaN)
IsPositive(change) == change.kind = "inf" \/ (change.kind = "fin" /\ change.num > 0)

IsNegative(change) == change.kind = "neginf" \/ (change.kind = "fin" /\ change.num < 0)

Abs(n) == IF n < 0 THEN 0 - n ELSE n

\* change.toFixed(2): "Infinity", "-Infinity", "NaN", or sign, whole part and
\* two decimals of the value rounded to the nearest hundredth (ties away
\* from zero); a negative value that rounds to zero keeps its sign ("-0.00").
ToFixed2(change) ==
    CASE change.kind = "inf"    -> <<"", "Infinity">>
      [] change.kind = "neginf" -> <<"-", "Infinity">>
      [] change.kind = "nan"    -> <<"", "NaN">>
      [] change.kind = "fin"    ->
           LET h == (2 * 100 * Abs(change.num) + change.den) \div (2 * change.den)
           IN  <<IF change.num < 0 THEN "-" ELSE "", h \div 100, h % 100>>

\* the argument of setPercentage
PercentageText(first, last) ==
    LET change == Change(first, last)
        formatted == ToFixed2(change)
    IN  IF IsPositive(change) THEN <<"up", "+", formatted>>
        ELSE IF IsNegative(change) THEN <<"down", "", formatted>>
        ELSE <<"0%">>

\* Phrase with the first comparison written >= (a flat series reads bullish)
Phrase_Ge(first, last) ==
    IF last >= first THEN "shows bullish momentum"
    ELSE IF last < first THEN "shows bearish pressure"
    ELSE "is moving sideways"

\* the verb phrase of the summary sentence
Phrase(first, last) ==
    IF last > first THEN "shows bullish momentum"
    ELSE IF last < first THEN "shows bearish pressure"
    ELSE "is moving sideways"

\* the argument of setSummary:
\* `${coin.toUpperCase()} ${phrase} over the last ${days} days.`
SummaryText(coin, d, first, last) == <<ToUpperCase(coin), Phrase(first, last), d>>

\* HasTrend with the guard written prices.length > 0
HasTrend_NonEmpty(prices) == Len(prices) > 0

\* if (prices.length > 1) { ... }
HasTrend(prices) == Len(prices) > 1

\* percentage and summary after the analysis of one response
PercentageAfter(prices) ==
    IF HasTrend(prices) THEN PercentageText(First(prices), Last(prices))
    ELSE percentage

SummaryAfter(coin, d, prices) ==
    IF HasTrend(prices) THEN SummaryText(coin, d, First(prices), Last(prices))
    ELSE summary

(***************************************************************************)
(* Portfolio valuation, computed on every render.                          *)
(***************************************************************************)
\* CoinPrice reading the first sample instead of the last
CoinPrice_First(d, coin) ==
    IF coin \notin DOMAIN d THEN 0
    ELSE LET arr == d[coin].prices
         IN  IF Len(arr) = 0 THEN 0 ELSE arr[1]

\* data[coin]?.[data[coin].length - 1]?.price || 0
CoinPrice(d, coin) ==
    IF coin \notin DOMAIN d THEN 0                     \* data[coin] undefined
    ELSE LET arr == d[coin].prices
         IN  IF Len(arr) = 0 THEN 0                    \* arr[-1] undefined
             ELSE IF arr[Len(arr)] = 0 THEN 0          \* 0 || 0
             ELSE arr[Len(arr)]

\* Object.entries(holdings).reduce((sum, [coin, amount]) => ..., 0) over the
\* first n entries; the keys of holdings keep the registry's order.
RECURSIVE Reduce(_, _, _)
Reduce(d, h, n) ==
    IF n = 0 THEN Num(0)
    ELSE JsAdd(Reduce(d, h, n - 1), JsMul(Num(CoinPrice(d, COINS[n])), h[COINS[n]]))

totalPortfolioValue == Reduce(data, holdings, Len(COINS))

(***************************************************************************)
(* Rendering.                                                              *)
(***************************************************************************)
\* {!loading && !error && selectedCoins.length > 0 && <ResponsiveContainer ...>}
ChartRendered == ~loading /\ error = "" /\ Len(selectedCoins) > 0

\* {loading && <p>Loading...</p>}, of the mounted tree
LoadingShown == ~crashed /\ loading

\* selectedCoins.length > 1 ? "Multi-Coin Comparison" : `${selectedCoins[0]...}`
\* throws when the single-coin branch reads selectedCoins[0] of an empty list
RenderThrows(sel) == ~(Len(sel) > 1) /\ Len(sel) = 0

(***************************************************************************)
(* Initial state: the values given to useState.                            *)
(***************************************************************************)
Init ==
    /\ data = EmptyMap
    /\ selectedCoins = <<"bitcoin">>
    /\ days = 7
    /\ loading = FALSE
    /\ error = ""
    /\ summary = NoText
    /\ percentage = NoText
    /\ holdings = [c \in CoinNames |-> Num(0)]
    /\ calls = <<>>
    /\ crashed = FALSE

(***************************************************************************)
(* fetchCrypto.                                                            *)
(***************************************************************************)
\* The cycles that are suspended at an await.
InFlight == {c \in 1..Len(calls) : calls[c].pc = "await"}

\* The closure a new invocation captures, suspended at its first await.
NewCall(sel, d) == [coins |-> sel, days |-> d, i |-> 1, fetched |-> EmptyMap, pc |-> "await"]

\* ?days=${days} of the request URL: the days of the closure
RequestDays(call) == call.days

\* /api/crypto/${coin}: the coin of the current loop iteration
RequestCoin(call) == call.coins[call.i]

\* fetchedData[coin] = response.data
Store(fetched, coin, series) ==
    [k \in DOMAIN fetched \cup {coin} |-> IF k = coin THEN series ELSE fetched[k]]

\* DataAfterResponse with setData(fetchedData) inside the loop
DataAfterResponse_EachCoin(call, fetched) == fetched

\* data after a response: setData(fetchedData) follows the loop, so data
\* changes only with the answer for the last coin of the cycle
DataAfterResponse(call, fetched) ==
    IF call.i < Len(call.coins) THEN data ELSE fetched

\* DataAfterFailure with the catch block publishing what was fetched so far
DataAfterFailure_Partial(call) == call.fetched

\* data after a failed fetch: the catch block does not touch data
DataAfterFailure(call) == data

\* LoadingAfterFailure with setLoading(false) as the last statement of the
\* try block instead of a finally block
LoadingAfterFailure_NoFinally(call) == loading

\* loading after a failed fetch: finally { setLoading(false) }
LoadingAfterFailure(call) == FALSE

\* fetchCrypto from its call to its first await, for the render (sel, d):
\* setLoading(true); setError(""); setSummary(""); setPercentage("").
\* With no coin selected the loop body never runs and the function ends
\* without suspending: setData({}) and setLoading(false).  (No render with
\* an empty selection commits, see ToggleCoin, so no effect calls it so.)
StartCycle(sel, d) ==
    /\ error' = ""
    /\ summary' = NoText
    /\ percentage' = NoText
    /\ IF Len(sel) = 0
       THEN /\ data' = EmptyMap
            /\ loading' = FALSE
            /\ calls' = Append(calls, [NewCall(sel, d) EXCEPT !.pc = "published"])
       ELSE /\ data' = data
            /\ loading' = TRUE
            /\ calls' = Append(calls, NewCall(sel, d))

\* useEffect(() => { fetchCrypto(); }, [selectedCoins, days]) on mount
Mount ==
    /\ ~crashed
    /\ calls = <<>>
    /\ StartCycle(selectedCoins, days)
    /\ UNCHANGED <<selectedCoins, days, holdings, crashed>>

\* onClick={() => setDays(d)}: a changed window re-renders and the effect
\* calls fetchCrypto; the same window changes nothing.
SetDays(d, maxCycles) ==
    /\ ~crashed
    /\ calls # <<>>
    /\ Len(calls) < maxCycles
    /\ d # days
    /\ days' = d
    /\ StartCycle(selectedCoins, d)
    /\ UNCHANGED <<selectedCoins, holdings, crashed>>

\* prev.includes(name) ? prev.filter(coin => coin !== name) : [...prev, name]
Toggled(prev, name) ==
    IF \E i \in 1..Len(prev) : prev[i] = name
    THEN SelectSeq(prev, LAMBDA coin : coin # name)
    ELSE Append(prev, name)

\* checkbox onChange: the new list re-renders; the render throws when the
\* list is empty (no error boundary: the tree is unmounted, its effects do
\* not run and later state updates are ignored), otherwise the effect calls
\* fetchCrypto.
ToggleCoin(name, maxCycles) ==
    /\ ~crashed
    /\ calls # <<>>
    /\ LET sel == Toggled(selectedCoins, name)
       IN  /\ selectedCoins' = sel
           /\ IF RenderThrows(sel)
              THEN /\ crashed' = TRUE
                   /\ UNCHANGED <<data, days, loading, error, summary, percentage,
                                  holdings, calls>>
              ELSE /\ Len(calls) < maxCycles
                   /\ StartCycle(sel, days)
                   /\ UNCHANGED <<days, holdings, crashed>>

\* The await of cycle c resolves with a series: store it, analyse it, then
\* either issue the next coin's request or setData(fetchedData) and, in the
\* finally block, setLoading(false).
Response(c, prices) ==
    /\ ~crashed
    /\ c \in InFlight
    /\ LET call == calls[c]
           coin == RequestCoin(call)
           series == [prices |-> prices, days |-> RequestDays(call), cyc |-> c]
           fetched == Store(call.fetched, coin, series)
       IN  /\ percentage' = PercentageAfter(prices)
           /\ summary' = SummaryAfter(coin, call.days, prices)
           /\ data' = DataAfterResponse(call, fetched)
           /\ IF call.i < Len(call.coins)
              THEN /\ calls' = [calls EXCEPT ![c].i = call.i + 1, ![c].fetched = fetched]
                   /\ UNCHANGED loading
              ELSE /\ loading' = FALSE
                   /\ calls' = [calls EXCEPT ![c].pc = "published", ![c].fetched = EmptyMap]
    /\ UNCHANGED <<selectedCoins, days, error, holdings, crashed>>

\* The await of cycle c rejects: catch sets the error, finally clears loading.
FetchFail(c) ==
    /\ ~crashed
    /\ c \in InFlight
    /\ error' = ErrorMessage
    /\ loading' = LoadingAfterFailure(calls[c])
    /\ data' = DataAfterFailure(calls[c])
    /\ calls' = [calls EXCEPT ![c].pc = "failed", ![c].fetched = EmptyMap]
    /\ UNCHANGED <<selectedCoins, days, summary, percentage, holdings, crashed>>

\* The cycle c settles after the tree was unmounted: its continuation runs
\* to its end, and React ignores the state updates of an unmounted component.
SettleUnmounted(c) ==
    /\ crashed
    /\ c \in InFlight
    /\ calls' = [calls EXCEPT ![c].pc = "ignored", ![c].fetched = EmptyMap]
    /\ UNCHANGED <<data, selectedCoins, days, loading, error, summary, percentage,
                   holdings, crashed>>

\* HoldingsAfterEdit without the spread of the previous holdings
HoldingsAfterEdit_NoSpread(name, text) == [k \in {name} |-> ParseFloat(text)]

\* {...holdings, [c.name]: parseFloat(e.target.value)}
HoldingsAfterEdit(name, text) == [holdings EXCEPT ![name] = ParseFloat(text)]

\* onChange={(e) => setHoldings({...holdings, [c.name]: parseFloat(e.target.value)})}
HoldingsEdit(name, text) ==
    /\ ~crashed
    /\ calls # <<>>
    /\ holdings' = HoldingsAfterEdit(name, text)
    /\ UNCHANGED <<data, selectedCoins, days, loading, error, summary, percentage,
                   calls, crashed>>

(***************************************************************************)
(* Specifications.                                                         *)
(***************************************************************************)
\* All series of at most n samples with prices 0..p
AllSeries(n, p) == UNION {[1..k -> 0..p] : k \in 0..n}

\* The answers of the price API in Spec: an empty series, a single sample,
\* a rising, a falling and a flat series.
ServerSeries == {<<>>, <<1>>, <<1, 2>>, <<2, 1>>, <<1, 1>>}

\* Spec: the interleavings of selection changes, window changes and fetch
\* responses of up to MaxCycles cycles.
Next ==
    \/ Mount
    \/ \E d \in Windows : SetDays(d, MaxCycles)
    \/ \E name \in CoinNames : ToggleCoin(name, MaxCycles)
    \/ \E c \in InFlight, prices \in ServerSeries : Response(c, prices)
    \/ \E c \in InFlight : FetchFail(c)
    \/ \E c \in InFlight : SettleUnmounted(c)

Spec == Init /\ [][Next]_vars

\* SpecFair: Spec in which the effect of the first render runs and every
\* issued fetch eventually settles.
Settle ==
    \E c \in InFlight :
        \/ \E prices \in ServerSeries : Response(c, prices)
        \/ FetchFail(c)
        \/ SettleUnmounted(c)

SpecFair == Spec /\ WF_vars(Mount) /\ WF_vars(Settle)

\* The selections of one or two coins, and the component mounted with one
\* of them and any window.
Selections ==
    {<<a>> : a \in CoinNames}
        \cup {pair \in CoinNames \X CoinNames : pair[1] # pair[2]}

InitWith(sel, d) ==
    /\ data = EmptyMap
    /\ selectedCoins = sel
    /\ days = d
    /\ loading = FALSE
    /\ error = ""
    /\ summary = NoText
    /\ percentage = NoText
    /\ holdings = [c \in CoinNames |-> Num(0)]
    /\ calls = <<>>
    /\ crashed = FALSE

\* SpecTrend: one cycle, for any selection of one or two coins and any
\* window, answered by any series of at most MaxLen samples with prices
\* 0..MaxPrice.
InitTrend == \E sel \in Selections, d \in Windows : InitWith(sel, d)

NextTrend ==
    \/ Mount
    \/ \E c \in InFlight, prices \in AllSeries(MaxLen, MaxPrice) : Response(c, prices)
    \/ \E c \in InFlight : FetchFail(c)

SpecTrend == InitTrend /\ [][NextTrend]_vars

\* SpecPortfolio: one cycle for any selection of one or two coins, answered
\* by any series of at most MaxHeldLen samples with prices 0..MaxHeldPrice,
\* and any holdings edits.
InitPortfolio == \E sel \in Selections : InitWith(sel, 7)

NextPortfolio ==
    \/ Mount
    \/ \E c \in InFlight, prices \in AllSeries(MaxHeldLen, MaxHeldPrice) : Response(c, prices)
    \/ \E c \in InFlight : FetchFail(c)
    \/ \E name \in CoinNames, text \in InputTexts : HoldingsEdit(name, text)

SpecPortfolio == InitPortfolio /\ [][NextPortfolio]_vars

(***************************************************************************)
(* Properties.                                                             *)
(***************************************************************************)
Range(seq) == {seq[i] : i \in 1..Len(seq)}

Cycles == 1..Len(calls)

Published == {c \in Cycles : calls[c].pc = "published"}

Failed == {c \in Cycles : calls[c].pc = "failed"}

Max(S) == CHOOSE x \in S : \A y \in S : y <= x

\* Cycle c ends in failure in this step.
Fails(c) == c \in InFlight /\ calls'[c].pc = "failed"

\* The await of cycle c resolves with a series in this step, and the series.
Resolves(c) ==
    c \in InFlight /\ calls'[c] # calls[c] /\ calls'[c].pc \in {"await", "published"}

Received(c) ==
    IF calls'[c].pc = "await" THEN calls'[c].fetched[RequestCoin(calls[c])].prices
    ELSE data'[RequestCoin(calls[c])].prices

\* C1: staleness discard.  Once cycles have published, the published series
\* map is the one produced by the latest-started of them: the completion of
\* an earlier-started cycle never overwrites what a later-started cycle
\* published.
C1_StalenessDiscard ==
    Published # {} => \A k \in DOMAIN data : data[k].cyc = Max(Published)

\* C2: aggregation is atomic.  The published series map is the initial empty
\* map or the complete result of one cycle that has settled all its fetches:
\* its keys are that cycle's selected coins and every series was fetched by
\* that cycle with that cycle's window.
C2_AtomicAggregation ==
    \/ data = EmptyMap
    \/ \E c \in Published :
          /\ DOMAIN data = Range(calls[c].coins)
          /\ \A k \in DOMAIN data : data[k].cyc = c /\ data[k].days = calls[c].days

\* a two-coin cycle has published while the other cycle has settled too
C2_Witness ==
    \E c \in Published :
        /\ Len(calls[c].coins) = 2
        /\ DOMAIN data = Range(calls[c].coins)
        /\ \A k \in DOMAIN data : data[k].cyc = c
        /\ \E b \in Cycles : b # c /\ calls[b].pc # "await"

\* C3: cycle-wide failure.  A cycle one of whose fetches fails publishes no
\* series map, neither at the failure nor later, and ends with the error
\* message set, so that the chart is not rendered.
C3_CycleWideFailure ==
    /\ [](\A c \in Failed : \A k \in DOMAIN data : data[k].cyc # c)
    /\ [][\A c \in Cycles : Fails(c) =>
            /\ data' = data
            /\ error' = ErrorMessage
            /\ ~ChartRendered']_vars

\* a two-coin cycle failed on its second coin, after an earlier cycle published
C3_Witness ==
    \E c \in Failed :
        /\ calls[c].i = 2
        /\ error = ErrorMessage
        /\ data # EmptyMap

\* C4: on cycle failure no stale data remains exposed.  When a cycle ends in
\* failure the series map is cleared, so that nothing is computed from an
\* earlier cycle's series any more.
C4_NoStaleDataAfterFailure ==
    [][\A c \in Cycles : Fails(c) => data' = EmptyMap]_vars

\* C5: the loading flag is true in every state in which a cycle is in flight.
C5_LoadingWhileInFlight == InFlight # {} => loading

\* C6: the error flag describes the latest-started cycle.  Once the
\* latest-started cycle has completed successfully, the error message is
\* empty.
C6_ErrorOfCurrentCycle ==
    (calls # <<>> /\ calls[Len(calls)].pc = "published") => error = ""

\* C7: derived trend output never goes stale relative to the series map.
\* When no cycle is in flight, a non-empty summary or percentage is the trend
\* analysis of a series of the published series map, for its coin and window.
C7_TrendMatchesData ==
    (InFlight = {} /\ (summary # NoText \/ percentage # NoText)) =>
        \E k \in DOMAIN data :
            LET p == data[k].prices
            IN  /\ Len(p) >= 2
                /\ summary = SummaryText(k, data[k].days, p[1], p[Len(p)])
                /\ percentage = PercentageText(p[1], p[Len(p)])

\* C8: trend classification.  Whenever a fetch resolves with a series of at
\* least 2 samples, the summary sentence set for it names the fetched coin
\* and the cycle's window and carries exactly one of the three phrases:
\* bullish iff last > first, bearish iff last < first, sideways iff
\* last = first.
C8_Classification ==
    [][\A c \in Cycles : Resolves(c) =>
         LET p == Received(c)
         IN  Len(p) >= 2 =>
               /\ Len(summary') = 3
               /\ summary'[1] = ToUpperCase(RequestCoin(calls[c]))
               /\ summary'[3] = calls[c].days
               /\ summary'[2] \in {"shows bullish momentum", "shows bearish pressure",
                                   "is moving sideways"}
               /\ summary'[2] = "shows bullish momentum" <=> p[Len(p)] > p[1]
               /\ summary'[2] = "shows bearish pressure" <=> p[Len(p)] < p[1]
               /\ summary'[2] = "is moving sideways" <=> p[Len(p)] = p[1]]_vars

\* a cycle has published a flat series of two samples, classified sideways
C8_Witness ==
    \E c \in Published : \E k \in DOMAIN data :
        /\ data[k].cyc = c
        /\ Len(data[k].prices) = 2
        /\ data[k].prices[1] = data[k].prices[2]
        /\ summary = <<ToUpperCase(k), "is moving sideways", calls[c].days>>

LatestPrice(coin) ==
    IF coin \in DOMAIN data /\ data[coin].prices # <<>>
    THEN data[coin].prices[Len(data[coin].prices)]
    ELSE 0

RECURSIVE SumOver(_)
SumOver(S) ==
    IF S = {} THEN 0
    ELSE LET coin == CHOOSE x \in S : TRUE
         IN  holdings[coin].v * LatestPrice(coin) + SumOver(S \ {coin})

NumericHoldings == \A coin \in DOMAIN holdings : ~holdings[coin].nan

\* C10: portfolio valuation.  With numeric quantities, the valuation is the
\* sum over the held coins of quantity * latestPrice; a held coin without a
\* series in the series map contributes 0.
C10_Valuation ==
    NumericHoldings =>
        /\ totalPortfolioValue = Num(SumOver(DOMAIN holdings))
        /\ \A coin \in DOMAIN holdings \ DOMAIN data :
              JsMul(Num(CoinPrice(data, coin)), holdings[coin]) = Num(0)

\* two series with different first and last prices are published, both coins
\* are held, and so is a coin that has no series
C10_Witness ==
    /\ NumericHoldings
    /\ \E a, b \in DOMAIN data : \E x \in DOMAIN holdings \ DOMAIN data :
          /\ a # b
          /\ Len(data[a].prices) = 2 /\ data[a].prices[1] # data[a].prices[2]
          /\ LatestPrice(a) > 0 /\ LatestPrice(b) > 0
          /\ holdings[a].v = 2 /\ holdings[b].v = 0 - 1 /\ holdings[x].v = 2
          /\ totalPortfolioValue = Num(2 * LatestPrice(a) - LatestPrice(b))

RECURSIVE SumNumeric(_)
SumNumeric(S) ==
    IF S = {} THEN 0
    ELSE LET coin == CHOOSE x \in S : TRUE
         IN  (IF holdings[coin].nan THEN 0 ELSE holdings[coin].v * LatestPrice(coin))
                 + SumNumeric(S \ {coin})

\* C11: invalid holdings input.  A coin whose quantity is not a number
\* contributes 0: the portfolio total is a finite number, the sum of
\* quantity * latestPrice over the coins with a numeric quantity.
C11_InvalidHoldingsFinite ==
    /\ ~totalPortfolioValue.nan
    /\ totalPortfolioValue.v = SumNumeric(DOMAIN holdings)

\* The percentage text carries no Infinity and no NaN.
FiniteText(text) == text = NoText \/ text = <<"0%">> \/ Len(text[3]) = 3

\* C12: degenerate division.  Whenever a fetch resolves with a series of at
\* least 2 samples whose first price is 0, the percentage set for it is a
\* finite text.
C12_DegenerateDivision ==
    [][\A c \in Cycles : Resolves(c) =>
         LET p == Received(c)
         IN  (Len(p) >= 2 /\ p[1] = 0) => FiniteText(percentage')]_vars

\* C13: cycle triggers.  A step starts a cycle exactly when it is the mount
\* or changes the selected coins or the window; it then starts one cycle,
\* with the new selection and window.  No other step (a response, a failure,
\* a holdings edit) starts one.
C13_CycleTriggers ==
    [][LET trigger == calls = <<>> \/ selectedCoins' # selectedCoins \/ days' # days
       IN  IF trigger
           THEN /\ Len(calls') = Len(calls) + 1
                /\ calls'[Len(calls')].coins = selectedCoins'
                /\ calls'[Len(calls')].days = days'
                /\ \A c \in Cycles : calls'[c] = calls[c]
           ELSE Len(calls') = Len(calls)]_vars

\* C14: a trend result per selected coin.  After a successful cycle the
\* summary of every coin of the cycle whose series has at least 2 samples is
\* exposed.
C14_TrendPerCoin ==
    \A c \in Published : \A k \in DOMAIN data :
        (data[k].cyc = c /\ Len(data[k].prices) >= 2) =>
            /\ summary # NoText
            /\ summary[1] = ToUpperCase(k)

\* C15: holdings and the series map have independent lifecycles.  No step of
\* a fetch cycle changes the holdings; a holdings edit changes the quantity
\* of one coin only and nothing else of the state.
C15_IndependentLifecycles ==
    [][/\ calls' # calls => holdings' = holdings
       /\ holdings' # holdings =>
            /\ DOMAIN holdings' = DOMAIN holdings
            /\ \E name \in DOMAIN holdings :
                  \A other \in DOMAIN holdings \ {name} : holdings'[other] = holdings[other]
            /\ UNCHANGED <<data, selectedCoins, days, loading, error, summary,
                           percentage, calls>>]_vars

\* two coins were edited while a cycle published its series
C15_Witness ==
    /\ Published # {}
    /\ data # EmptyMap
    /\ holdings["bitcoin"] = Num(2)
    /\ holdings["ethereum"] = NaN
    /\ holdings["solana"] = Num(0)

\* C16: direction of the percentage text.  Whenever a fetch resolves with a
\* series of at least 2 samples and a positive first price, the text set for
\* it is the up arrow with a plus sign iff last > first, the down arrow with
\* the minus sign of the number alone iff last < first, and "0%" iff
\* last = first; its direction is the one of the summary's phrase.
C16_PercentageDirection ==
    [][\A c \in Cycles : Resolves(c) =>
         LET p == Received(c)
             text == percentage'
             up == Len(text) = 3 /\ text[1] = "up" /\ text[2] = "+" /\ text[3][1] = ""
             down == Len(text) = 3 /\ text[1] = "down" /\ text[2] = "" /\ text[3][1] = "-"
         IN  (Len(p) >= 2 /\ p[1] > 0) =>
               /\ up <=> p[Len(p)] > p[1]
               /\ down <=> p[Len(p)] < p[1]
               /\ text = <<"0%">> <=> p[Len(p)] = p[1]
               /\ up <=> summary'[2] = "shows bullish momentum"
               /\ down <=> summary'[2] = "shows bearish pressure"]_vars

\* a cycle has published a series falling from 3 to 1, shown as down -66.67%
C16_Witness ==
    \E c \in Published : \E k \in DOMAIN data :
        /\ data[k].cyc = c
        /\ data[k].prices = <<3, 1>>
        /\ percentage = <<"down", "", <<"-", 66, 67>>>>
        /\ summary[2] = "shows bearish pressure"

\* C17: a fetch for every coin of the cycle.  A cycle that has reported
\* success or failure has issued the request of every coin of its selection.
C17_AllFetchesIssued ==
    \A c \in Published \cup Failed : calls[c].i = Len(calls[c].coins)

\* C18: the headline is defined.  Whenever the headline takes its
\* single-coin branch, the list of selected coins is not empty.
C18_HeadlineDefined == ~(Len(selectedCoins) > 1) => Len(selectedCoins) > 0

\* C19: every cycle terminates its loading state.  When every issued fetch
\* settles, eventually and from then on no cycle is in flight and no loading
\* indicator is shown.
C19_LoadingTerminates == <>[](InFlight = {} /\ ~LoadingShown)

\* one cycle failed, another published, none is in flight and loading is false
C19_Witness ==
    /\ Failed # {}
    /\ Published # {}
    /\ InFlight = {}
    /\ ~crashed
    /\ ~loading

====
